---- MODULE Spec2Model ----
(***************************************************************************)
(* The Flask gateway of src/app.py: five request handlers that drive an    *)
(* order contract through one signing account.  Each handler is split at   *)
(* its remote calls to the ledger node, so that requests served by         *)
(* different worker threads interleave exactly where the code can be       *)
(* pre-empted by another request reaching the node.                        *)
(***************************************************************************)
EXTENDS Integers, Sequences, FiniteSets, TLC

\* Worker threads of the server (app.run serves each request on its own thread).
Threads == {"t1", "t2"}

\* New requests are admitted only while the account's transaction count is
\* below this cap; it keeps the ledger's counter finite.
MaxTxCount == 2

(***************************************************************************)
(* JSON values of a request body.  A number is kept the way Python's       *)
(* Decimal keeps it, as coefficient and decimal exponent: 1.5 is           *)
(* (15, -1), 1.5e-18 is (15, -19).                                         *)
(***************************************************************************)
Absent == [kind |-> "absent", text |-> "", coef |-> 0, exp |-> 0]
Num(c, e) == [kind |-> "num", text |-> "", coef |-> c, exp |-> e]
Str(s) == [kind |-> "str", text |-> s, coef |-> 0, exp |-> 0]

Address == Str("0xCF10217bf58d9690f4857134eF745048Ad833b6E")
BadAddress == Str("not-an-address")
Vin == Str("VIN123456")
OtherDoc == Str("ipfs://from-the-request")

\* Python truthiness of data.get(field): None, "" and 0 are falsy.
Truthy(v) ==
    CASE v.kind = "absent" -> FALSE
      [] v.kind = "str" -> v.text # ""
      [] OTHER -> v.coef # 0

(***************************************************************************)
(* Integers of the ledger (wei amounts) exceed 32 bits, so an integer n is  *)
(* kept as coef * 10^exp with exp >= 0.                                    *)
(***************************************************************************)
Big(c, e) == [coef |-> c, exp |-> e]

RECURSIVE Norm(_)
Norm(b) ==
    IF b.coef = 0 THEN Big(0, 0)
    ELSE IF b.coef % 10 = 0 THEN Norm(Big(b.coef \div 10, b.exp + 1))
    ELSE b

\* Decimal exponent of the units table: 1 ether = 10^18 wei, 1 gwei = 10^9 wei.
EtherExp == 18
GweiExp == 9
UnitExp(unit) == IF unit = "ether" THEN EtherExp ELSE GweiExp

\* w3.to_wei raises for a value that is no number (decimal.InvalidOperation)
\* and for a result below MIN_WEI = 0 (ValueError).
ToWeiRaises(v) == v.kind # "num" \/ v.coef < 0

\* c with its last k decimal digits dropped: the integer part of c / 10^k.
RECURSIVE DropDigits(_, _)
DropDigits(c, k) == IF k <= 0 \/ c = 0 THEN c ELSE DropDigits(c \div 10, k - 1)

\* w3.to_wei(number, unit): Decimal(number) * 10^unit, cut to an integer
\* (int() of the Decimal product drops the fraction).
ToWei(v, unit) ==
    LET e == v.exp + UnitExp(unit) IN
    IF v.coef = 0 THEN Big(0, 0)
    ELSE IF e >= 0 THEN Norm(Big(v.coef, e))
    ELSE Norm(Big(DropDigits(v.coef, -e), 0))

\* w3.from_wei(number, unit): the Decimal number / 10^unit.
FromWei(b, unit) == Num(b.coef, b.exp - UnitExp(unit))

\* The attributes the Web3 object offers in the library generation the write
\* handlers are written for (to_wei, raw_transaction: snake case only).
Web3Attrs == {"to_wei", "from_wei", "eth"}

(***************************************************************************)
(* Requests.  A body is either no JSON object (request.get_json() gives    *)
(* None or a list) or an object whose fields are present or absent.  doc   *)
(* is a field no handler reads.                                            *)
(***************************************************************************)
Body(op, obj, s, a, v, o, d) ==
    [op |-> op, isObject |-> obj, supplier |-> s, amount |-> a, vin |-> v,
     orderId |-> o, doc |-> d]

NotObject(op) == Body(op, FALSE, Absent, Absent, Absent, Absent, Absent)

Amounts ==
    {Absent, Num(0, 0), Str(""), Num(1, 0), Num(15, -1), Num(15, -19), Num(-1, 0), Str("abc")}
DepositAmounts == {Absent, Num(0, 0), Num(1, 0), Num(15, -1)}
OrderIds == {Absent, Num(0, 0), Num(1, 0), Str("abc")}

CreateOrderBodies ==
    {NotObject("createOrder")} \cup
    {Body("createOrder", TRUE, s, a, v, Absent, d) :
        s \in {Absent, Str(""), Address, BadAddress}, a \in Amounts,
        v \in {Absent, Str(""), Vin}, d \in {Absent, OtherDoc}}

DepositFundsBodies ==
    {NotObject("depositFunds")} \cup
    {Body("depositFunds", TRUE, Absent, a, Absent, o, Absent) :
        a \in DepositAmounts, o \in OrderIds}

OrderIdBodies(op) ==
    {NotObject(op)} \cup
    {Body(op, TRUE, Absent, Absent, Absent, o, Absent) : o \in OrderIds}

\* /getOrder/<int:order_id>: the route admits non-negative integers only.
GetOrderRequests ==
    {Body("getOrder", TRUE, Absent, Absent, Absent, Num(n, 0), Absent) : n \in {1, 2}}

\* One body of each shape a handler tells apart: no object, a field missing,
\* an amount to_wei refuses, an argument the ABI refuses, a well-formed body.
SomeCreateOrderBodies ==
    {NotObject("createOrder"),
     Body("createOrder", TRUE, Address, Absent, Vin, Absent, Absent),
     Body("createOrder", TRUE, Address, Str("abc"), Vin, Absent, Absent),
     Body("createOrder", TRUE, BadAddress, Num(15, -1), Vin, Absent, Absent),
     Body("createOrder", TRUE, Address, Num(15, -1), Vin, Absent, Absent)}

SomeDepositFundsBodies ==
    {Body("depositFunds", TRUE, Absent, Num(1, 0), Absent, Absent, Absent),
     Body("depositFunds", TRUE, Absent, Num(1, 0), Absent, Num(1, 0), Absent),
     Body("depositFunds", TRUE, Absent, Num(15, -1), Absent, Num(1, 0), Absent)}

SomeOrderIdBodies(op) ==
    {Body(op, TRUE, Absent, Absent, Absent, Absent, Absent),
     Body(op, TRUE, Absent, Absent, Absent, Num(1, 0), Absent)}

SomeGetOrderRequests ==
    {Body("getOrder", TRUE, Absent, Absent, Absent, Num(1, 0), Absent)}

NoRequest == Body("none", FALSE, Absent, Absent, Absent, Absent, Absent)

WriteOps == {"createOrder", "depositFunds", "markShipped", "confirmDelivery"}

(***************************************************************************)
(* Process-wide configuration and the values the node reports.             *)
(***************************************************************************)
ISO_CID == "configured-cid"
\* f"ipfs://{ISO_CID}"
DocRef == Str("ipfs://" \o ISO_CID)
GasLimit == 300000
DepositGasPriceGwei == 5
NodeChainId == 1
NodeGasPrice == 20
NodeGasEstimate == 50000

\* to_wei("0.5", "ether") and to_wei("5", "gwei")
FixedDeposit == ToWei(Num(5, -1), "ether")
DepositGasPrice == ToWei(Num(DepositGasPriceGwei, 0), "gwei")

(***************************************************************************)
(* Responses: status, the JSON error text, the transaction identifier, the *)
(* order snapshot; json is FALSE for the server's own answer to an         *)
(* exception no handler catches.                                           *)
(***************************************************************************)
Response(st, err, h, o, j) ==
    [status |-> st, error |-> err, txHash |-> h, order |-> o, json |-> j]

NoResponse == Response(0, "", {}, {}, FALSE)
MissingFields == Response(400, "Missing required fields", {}, {}, TRUE)
Success(h) == Response(200, "", {h}, {}, TRUE)
Uncaught == Response(500, "Internal Server Error", {}, {}, FALSE)

\* Mutant: the except clause answers with a text of its own.
ExceptHandlerGeneric(msg) == Response(500, "Transaction failed", {}, {}, TRUE)

\* except Exception as e: return jsonify({"error": str(e)}), 500
ExceptHandler(msg) == Response(500, msg, {}, {}, TRUE)

\* Messages of the faults a step can raise, and of the two faults the model
\* derives from state.
FaultMessages == {"connection refused", "execution reverted"}
NonceTooLow == "nonce too low"
AbiMismatch == "Could not identify the intended function"
NoFromWei == "'Web3' object has no attribute 'fromWei'"

(***************************************************************************)
(* Contract calls and transaction envelopes.                               *)
(***************************************************************************)
\* contract.functions.<fn>(...): the arguments each handler passes.
FunctionCall(r, wei) ==
    IF r.op = "createOrder"
    THEN [fn |-> r.op, supplier |-> r.supplier, amount |-> wei, vin |-> r.vin,
          doc |-> DocRef, orderId |-> Absent]
    ELSE [fn |-> r.op, supplier |-> Absent, amount |-> Big(0, 0), vin |-> Absent,
          doc |-> Absent, orderId |-> r.orderId]

\* The ABI check made when the function object is built: an address, a
\* string, an unsigned integer.
Encodable(c) ==
    IF c.fn = "createOrder"
    THEN c.supplier = Address /\ c.vin.kind = "str"
    ELSE c.orderId.kind = "num" /\ c.orderId.exp >= 0 /\ c.orderId.coef >= 0

\* build_transaction of the flat-gas handlers: no "value" key, so the
\* library's default of 0 is attached.
FlatGasEnvelope(c, chain, price, n) ==
    [call |-> c, chainId |-> chain, gas |-> GasLimit, gasPrice |-> Big(price, 0),
     nonce |-> n, value |-> Big(0, 0)]

\* build_transaction of deposit_funds.
DepositEnvelope(c, chain, est, n, wei) ==
    [call |-> c, chainId |-> chain, gas |-> est, gasPrice |-> DepositGasPrice,
     nonce |-> n, value |-> wei]

\* account.sign_transaction(tx) and the identifier of a submitted transaction.
SignTransaction(tx) == [raw_transaction |-> tx, signer |-> "account"]
TxHash(stx) == [hex |-> stx]

\* The node's rule for a submitted transaction of the account.
NodeAccepts(n, count) == n = count

\* orders(order_id).call(): the tuples the contract may hold for an id.
OrderTuples(id) ==
    {[orderId |-> id, buyer |-> "account", supplier |-> Address, amount |-> a,
      state |-> 0, vin |-> Vin, isoTs16949Doc |-> DocRef] :
        a \in {Big(1, 18), Big(15, 17)}}

\* jsonify of the order tuple, amount through fromWei.
Snapshot(o) == [o EXCEPT !.amount = FromWei(o.amount, "ether")]

(***************************************************************************)
(* State.                                                                  *)
(***************************************************************************)
VARIABLES
    pc,          \* per thread: where its handler stands
    req,         \* per thread: the request body it serves
    amount_wei,  \* per thread: the handler's amount_wei, as a set of at most one
    nonce,       \* per thread: the handler's nonce, -1 before the lookup
    gas_estimate,\* per thread: deposit_funds' gas_estimate, -1 before the lookup
    chain_id,    \* per thread: the chain id read for the envelope, -1 before
    gas_price,   \* per thread: the gas price read for the envelope, -1 before
    tx,          \* per thread: the built envelope, as a set of at most one
    signed_tx,   \* per thread: the signed envelope, as a set of at most one
    order,       \* per thread: get_order's tuple, as a set of at most one
    resp,        \* per thread: the response of the request
    txCount,     \* the node: the account's transaction count
    calls,       \* per thread: the remote calls of the request, in order
    raised,      \* per thread: the fault raised inside the try block, if any
    builtAt,     \* per thread: the node's count when the envelope was built
    maxFetched,  \* the largest nonce any request has fetched so far
    estimated,   \* per thread: the value handed to estimate_gas, at most one
    monotone     \* no nonce lookup so far returned less than an earlier one

locals == <<req, amount_wei, nonce, gas_estimate, chain_id, gas_price, tx,
            signed_tx, order, calls, raised, builtAt>>
vars == <<pc, resp, txCount, maxFetched, estimated, monotone, locals>>

Init ==
    /\ pc = [t \in Threads |-> "idle"]
    /\ req = [t \in Threads |-> NoRequest]
    /\ amount_wei = [t \in Threads |-> {}]
    /\ nonce = [t \in Threads |-> -1]
    /\ gas_estimate = [t \in Threads |-> -1]
    /\ chain_id = [t \in Threads |-> -1]
    /\ gas_price = [t \in Threads |-> -1]
    /\ tx = [t \in Threads |-> {}]
    /\ signed_tx = [t \in Threads |-> {}]
    /\ order = [t \in Threads |-> {}]
    /\ resp = [t \in Threads |-> NoResponse]
    /\ txCount = 0
    /\ calls = [t \in Threads |-> <<>>]
    /\ raised = [t \in Threads |-> {}]
    /\ builtAt = [t \in Threads |-> -1]
    /\ maxFetched = -1
    /\ estimated = [t \in Threads |-> {}]
    /\ monotone = TRUE

\* The handler returns r.
Return(t, r) ==
    /\ pc' = [pc EXCEPT ![t] = "done"]
    /\ resp' = [resp EXCEPT ![t] = r]

\* The handler goes on to step p.
Goto(t, p) ==
    /\ pc' = [pc EXCEPT ![t] = p]
    /\ UNCHANGED resp

RemoteCall(t, name) == calls' = [calls EXCEPT ![t] = Append(@, name)]

(***************************************************************************)
(* Handler entries: the code of each handler up to its first remote call.  *)
(***************************************************************************)
\* data.get(...) on a body that is no object raises outside any try block.
Validate(t, body, present, wei, first) ==
    /\ pc[t] = "idle"
    /\ req' = [req EXCEPT ![t] = body]
    /\ IF ~body.isObject THEN Return(t, Uncaught) /\ UNCHANGED amount_wei
       ELSE IF ~present THEN Return(t, MissingFields) /\ UNCHANGED amount_wei
       ELSE IF wei = {} THEN Return(t, Uncaught) /\ UNCHANGED amount_wei
       ELSE Goto(t, first) /\ amount_wei' = [amount_wei EXCEPT ![t] = wei]
    /\ UNCHANGED <<nonce, gas_estimate, chain_id, gas_price, tx, signed_tx, order,
                   txCount, calls, raised, builtAt, maxFetched, estimated, monotone>>

\* Mutant: the presence check leaves out vin.
create_order_vin_unchecked(t, bodies) ==
    /\ txCount < MaxTxCount
    /\ \E body \in bodies :
         Validate(t, body, Truthy(body.supplier) /\ Truthy(body.amount),
                  IF ToWeiRaises(body.amount) THEN {} ELSE {ToWei(body.amount, "ether")},
                  "nonce")

\* Mutant: the amount is converted with the wrong unit.
create_order_gwei(t, bodies) ==
    /\ txCount < MaxTxCount
    /\ \E body \in bodies :
         Validate(t, body,
                  Truthy(body.supplier) /\ Truthy(body.amount) /\ Truthy(body.vin),
                  IF ToWeiRaises(body.amount) THEN {} ELSE {ToWei(body.amount, "gwei")},
                  "nonce")

create_order(t, bodies) ==
    /\ txCount < MaxTxCount
    /\ \E body \in bodies :
         Validate(t, body,
                  Truthy(body.supplier) /\ Truthy(body.amount) /\ Truthy(body.vin),
                  IF ToWeiRaises(body.amount) THEN {} ELSE {ToWei(body.amount, "ether")},
                  "nonce")

\* Mutant: the deposit attaches the caller's amount.
deposit_funds_caller_amount(t, bodies) ==
    /\ txCount < MaxTxCount
    /\ \E body \in bodies :
         Validate(t, body, Truthy(body.orderId) /\ Truthy(body.amount),
                  IF ToWeiRaises(body.amount) THEN {} ELSE {ToWei(body.amount, "ether")},
                  "nonce")

deposit_funds(t, bodies) ==
    /\ txCount < MaxTxCount
    /\ \E body \in bodies :
         Validate(t, body, Truthy(body.orderId) /\ Truthy(body.amount),
                  {FixedDeposit}, "nonce")

\* mark_shipped and confirm_delivery convert no amount: amount_wei holds a
\* zero that their contract calls never read.
mark_shipped(t, bodies) ==
    /\ txCount < MaxTxCount
    /\ \E body \in bodies :
         Validate(t, body, Truthy(body.orderId), {Big(0, 0)}, "nonce")

confirm_delivery(t, bodies) ==
    /\ txCount < MaxTxCount
    /\ \E body \in bodies :
         Validate(t, body, Truthy(body.orderId), {Big(0, 0)}, "nonce")

get_order(t, requests) ==
    /\ \E body \in requests :
         Validate(t, body, TRUE, {Big(0, 0)}, "call")

(***************************************************************************)
(* The steps inside the try block of the write handlers.                   *)
(***************************************************************************)
TheWei(t) == CHOOSE w \in amount_wei[t] : TRUE
TheTx(t) == CHOOSE e \in tx[t] : TRUE
TheSigned(t) == CHOOSE e \in signed_tx[t] : TRUE
TheCall(t) == FunctionCall(req[t], TheWei(t))

\* Mutant: the nonce comes from a counter the process keeps, not from the node.
GetTransactionCountCached(t) ==
    /\ pc[t] = "nonce"
    /\ nonce' = [nonce EXCEPT ![t] = maxFetched + 1]
    /\ maxFetched' = maxFetched + 1
    /\ Goto(t, "encode")
    /\ UNCHANGED <<req, amount_wei, gas_estimate, chain_id, gas_price, tx, signed_tx,
                   order, txCount, calls, raised, builtAt, estimated, monotone>>

\* nonce = w3.eth.get_transaction_count(account.address)
GetTransactionCount(t) ==
    /\ pc[t] = "nonce"
    /\ nonce' = [nonce EXCEPT ![t] = txCount]
    /\ maxFetched' = IF txCount > maxFetched THEN txCount ELSE maxFetched
    /\ monotone' = (monotone /\ txCount >= maxFetched)
    /\ RemoteCall(t, "get_transaction_count")
    /\ Goto(t, "encode")
    /\ UNCHANGED <<req, amount_wei, gas_estimate, chain_id, gas_price, tx, signed_tx,
                   order, txCount, raised, builtAt, estimated>>

\* contract.functions.<fn>(args): raises when the arguments fit no function.
ContractFunction(t) ==
    /\ pc[t] = "encode"
    /\ IF Encodable(TheCall(t))
       THEN /\ Goto(t, IF req[t].op = "depositFunds" THEN "estimate" ELSE "chainid")
            /\ UNCHANGED raised
       ELSE /\ Return(t, ExceptHandler(AbiMismatch))
            /\ raised' = [raised EXCEPT ![t] = {[step |-> "encode", msg |-> AbiMismatch]}]
    /\ UNCHANGED <<req, amount_wei, nonce, gas_estimate, chain_id, gas_price, tx,
                   signed_tx, order, txCount, calls, builtAt, maxFetched, estimated, monotone>>

\* gas_estimate = contract.functions.depositFunds(order_id).estimate_gas({...})
EstimateGas(t) ==
    /\ pc[t] = "estimate"
    /\ gas_estimate' = [gas_estimate EXCEPT ![t] = NodeGasEstimate]
    /\ estimated' = [estimated EXCEPT ![t] = {TheWei(t)}]
    /\ RemoteCall(t, "estimate_gas")
    /\ Goto(t, "chainid")
    /\ UNCHANGED <<req, amount_wei, nonce, chain_id, gas_price, tx, signed_tx, order,
                   txCount, raised, builtAt, maxFetched, monotone>>

\* "chainId": w3.eth.chain_id
ChainId(t) ==
    /\ pc[t] = "chainid"
    /\ chain_id' = [chain_id EXCEPT ![t] = NodeChainId]
    /\ RemoteCall(t, "chain_id")
    /\ Goto(t, IF req[t].op = "depositFunds" THEN "build" ELSE "gasprice")
    /\ UNCHANGED <<req, amount_wei, nonce, gas_estimate, gas_price, tx, signed_tx,
                   order, txCount, raised, builtAt, maxFetched, estimated, monotone>>

\* "gasPrice": w3.eth.gas_price
GasPrice(t) ==
    /\ pc[t] = "gasprice"
    /\ gas_price' = [gas_price EXCEPT ![t] = NodeGasPrice]
    /\ RemoteCall(t, "gas_price")
    /\ Goto(t, "build")
    /\ UNCHANGED <<req, amount_wei, nonce, gas_estimate, chain_id, tx, signed_tx,
                   order, txCount, raised, builtAt, maxFetched, estimated, monotone>>

\* The envelope a handler builds from its locals.
Envelope(t) ==
    IF req[t].op = "depositFunds"
    THEN DepositEnvelope(TheCall(t), chain_id[t], gas_estimate[t], nonce[t], TheWei(t))
    ELSE FlatGasEnvelope(TheCall(t), chain_id[t], gas_price[t], nonce[t])

\* Mutant: the envelope takes the node's count at build time, not the
\* handler's nonce.
BuildTransactionFreshNonce(t) ==
    /\ pc[t] = "build"
    /\ tx' = [tx EXCEPT ![t] = {[Envelope(t) EXCEPT !.nonce = txCount]}]
    /\ builtAt' = [builtAt EXCEPT ![t] = txCount]
    /\ Goto(t, "sign")
    /\ UNCHANGED <<req, amount_wei, nonce, gas_estimate, chain_id, gas_price,
                   signed_tx, order, txCount, calls, raised, maxFetched, estimated,
                   monotone>>

\* tx = contract.functions.<fn>(...).build_transaction({...})
BuildTransaction(t) ==
    /\ pc[t] = "build"
    /\ tx' = [tx EXCEPT ![t] = {Envelope(t)}]
    /\ builtAt' = [builtAt EXCEPT ![t] = txCount]
    /\ Goto(t, "sign")
    /\ UNCHANGED <<req, amount_wei, nonce, gas_estimate, chain_id, gas_price,
                   signed_tx, order, txCount, calls, raised, maxFetched, estimated, monotone>>

\* signed_tx = account.sign_transaction(tx)
Sign(t) ==
    /\ pc[t] = "sign"
    /\ signed_tx' = [signed_tx EXCEPT ![t] = {SignTransaction(TheTx(t))}]
    /\ Goto(t, "send")
    /\ UNCHANGED <<req, amount_wei, nonce, gas_estimate, chain_id, gas_price, tx,
                   order, txCount, calls, raised, builtAt, maxFetched, estimated, monotone>>

\* tx_hash = w3.eth.send_raw_transaction(signed_tx.raw_transaction), then the
\* success response; the node refuses a nonce that is not the account's count.
SendRawTransaction(t) ==
    /\ pc[t] = "send"
    /\ RemoteCall(t, "send_raw_transaction")
    /\ IF NodeAccepts(TheSigned(t).raw_transaction.nonce, txCount)
       THEN /\ txCount' = txCount + 1
            /\ Return(t, Success(TxHash(TheSigned(t))))
            /\ UNCHANGED raised
       ELSE /\ UNCHANGED txCount
            /\ Return(t, ExceptHandler(NonceTooLow))
            /\ raised' = [raised EXCEPT ![t] = {[step |-> "send", msg |-> NonceTooLow]}]
    /\ UNCHANGED <<req, amount_wei, nonce, gas_estimate, chain_id, gas_price, tx,
                   signed_tx, order, builtAt, maxFetched, estimated, monotone>>

(***************************************************************************)
(* The steps inside the try block of get_order.                            *)
(***************************************************************************)
TheOrder(t) == CHOOSE o \in order[t] : TRUE

\* order = contract.functions.orders(order_id).call()
OrdersCall(t) ==
    /\ pc[t] = "call"
    /\ \E o \in OrderTuples(req[t].orderId.coef) :
         order' = [order EXCEPT ![t] = {o}]
    /\ RemoteCall(t, "call")
    /\ Goto(t, "jsonify")
    /\ UNCHANGED <<req, amount_wei, nonce, gas_estimate, chain_id, gas_price, tx,
                   signed_tx, txCount, raised, builtAt, maxFetched, estimated, monotone>>

\* return jsonify({... "amount": w3.fromWei(order[3], "ether") ...}): the
\* attribute lookup w3.fromWei comes first and raises when there is none.
JsonifyOrder(t) ==
    /\ pc[t] = "jsonify"
    /\ IF "fromWei" \in Web3Attrs
       THEN /\ Return(t, Response(200, "", {}, {Snapshot(TheOrder(t))}, TRUE))
            /\ UNCHANGED raised
       ELSE /\ Return(t, ExceptHandler(NoFromWei))
            /\ raised' = [raised EXCEPT ![t] = {[step |-> "jsonify", msg |-> NoFromWei]}]
    /\ UNCHANGED <<req, amount_wei, nonce, gas_estimate, chain_id, gas_price, tx,
                   signed_tx, order, txCount, calls, builtAt, maxFetched, estimated, monotone>>

(***************************************************************************)
(* Faults.  Any step inside a try block may raise; a remote call that      *)
(* raises has still been made.                                             *)
(***************************************************************************)
TrySteps ==
    {"nonce", "encode", "estimate", "chainid", "gasprice", "build", "sign", "send",
     "call", "jsonify"}

CallOf(step) ==
    CASE step = "nonce" -> <<"get_transaction_count">>
      [] step = "estimate" -> <<"estimate_gas">>
      [] step = "chainid" -> <<"chain_id">>
      [] step = "gasprice" -> <<"gas_price">>
      [] step = "send" -> <<"send_raw_transaction">>
      [] step = "call" -> <<"call">>
      [] OTHER -> <<>>

\* Mutant: a failed submission is tried again.
RaiseAndRetry(t, msg) ==
    /\ pc[t] \in TrySteps
    /\ calls' = [calls EXCEPT ![t] = @ \o CallOf(pc[t])]
    /\ raised' = [raised EXCEPT ![t] = {[step |-> pc[t], msg |-> msg]}]
    /\ IF pc[t] = "send" THEN Goto(t, "send") ELSE Return(t, ExceptHandler(msg))
    /\ UNCHANGED <<req, amount_wei, nonce, gas_estimate, chain_id, gas_price, tx,
                   signed_tx, order, txCount, builtAt, maxFetched, estimated, monotone>>

\* The step at pc[t] raises msg, and the handler's except clause answers.
Raise(t, msg) ==
    /\ pc[t] \in TrySteps
    /\ calls' = [calls EXCEPT ![t] = @ \o CallOf(pc[t])]
    /\ raised' = [raised EXCEPT ![t] = {[step |-> pc[t], msg |-> msg]}]
    /\ Return(t, ExceptHandler(msg))
    /\ UNCHANGED <<req, amount_wei, nonce, gas_estimate, chain_id, gas_price, tx,
                   signed_tx, order, txCount, builtAt, maxFetched, estimated, monotone>>

\* The response has been delivered; the thread takes the next request.
Finish(t) ==
    /\ pc[t] = "done"
    /\ pc' = [pc EXCEPT ![t] = "idle"]
    /\ req' = [req EXCEPT ![t] = NoRequest]
    /\ amount_wei' = [amount_wei EXCEPT ![t] = {}]
    /\ nonce' = [nonce EXCEPT ![t] = -1]
    /\ gas_estimate' = [gas_estimate EXCEPT ![t] = -1]
    /\ chain_id' = [chain_id EXCEPT ![t] = -1]
    /\ gas_price' = [gas_price EXCEPT ![t] = -1]
    /\ tx' = [tx EXCEPT ![t] = {}]
    /\ signed_tx' = [signed_tx EXCEPT ![t] = {}]
    /\ order' = [order EXCEPT ![t] = {}]
    /\ resp' = [resp EXCEPT ![t] = NoResponse]
    /\ calls' = [calls EXCEPT ![t] = <<>>]
    /\ raised' = [raised EXCEPT ![t] = {}]
    /\ builtAt' = [builtAt EXCEPT ![t] = -1]
    /\ estimated' = [estimated EXCEPT ![t] = {}]
    /\ UNCHANGED <<txCount, maxFetched, monotone>>

\* The steps every handler takes after its entry.
Step(t) ==
    \/ GetTransactionCount(t)
    \/ ContractFunction(t)
    \/ EstimateGas(t)
    \/ ChainId(t)
    \/ GasPrice(t)
    \/ BuildTransaction(t)
    \/ Sign(t)
    \/ SendRawTransaction(t)
    \/ OrdersCall(t)
    \/ JsonifyOrder(t)
    \/ \E msg \in FaultMessages : Raise(t, msg)
    \/ Finish(t)

\* The threaded server: requests of every thread interleave at their remote
\* calls.  The bodies are one of each shape a handler tells apart.
Next ==
    \E t \in Threads :
        \/ create_order(t, SomeCreateOrderBodies)
        \/ deposit_funds(t, SomeDepositFundsBodies)
        \/ mark_shipped(t, SomeOrderIdBodies("markShipped"))
        \/ confirm_delivery(t, SomeOrderIdBodies("confirmDelivery"))
        \/ get_order(t, SomeGetOrderRequests)
        \/ Step(t)

Spec == Init /\ [][Next]_vars

\* One request at a time, over every body of the request sets.
Quiet(t) == \A u \in Threads \ {t} : pc[u] = "idle"

NextInputs ==
    \E t \in Threads :
        \/ Quiet(t) /\ create_order(t, CreateOrderBodies)
        \/ Quiet(t) /\ deposit_funds(t, DepositFundsBodies)
        \/ Quiet(t) /\ mark_shipped(t, OrderIdBodies("markShipped"))
        \/ Quiet(t) /\ confirm_delivery(t, OrderIdBodies("confirmDelivery"))
        \/ Quiet(t) /\ get_order(t, GetOrderRequests)
        \/ Step(t)

SpecInputs == Init /\ [][NextInputs]_vars

(***************************************************************************)
(* Properties.                                                             *)
(***************************************************************************)
Last(q) == q[Len(q)]
Sends(t) == Cardinality({i \in DOMAIN calls[t] : calls[t][i] = "send_raw_transaction"})
Submitted(t) == Sends(t) > 0

RequiredFields(r) ==
    CASE r.op = "createOrder" -> {r.supplier, r.amount, r.vin}
      [] r.op = "depositFunds" -> {r.orderId, r.amount}
      [] OTHER -> {r.orderId}

FieldMissing(r) == r.op \in WriteOps /\ r.isObject /\ Absent \in RequiredFields(r)

NoChainCall(t) ==
    /\ calls[t] = <<>>
    /\ nonce[t] = -1 /\ gas_estimate[t] = -1 /\ chain_id[t] = -1 /\ gas_price[t] = -1
    /\ estimated[t] = {} /\ tx[t] = {} /\ signed_tx[t] = {}

\* C1: a write request whose JSON object lacks a required field is answered
\* 400 "Missing required fields", and no remote call of any kind (nonce,
\* gas, chain id, estimate, signing, submission) is made for it.
C1_MissingFieldRejected ==
    \A t \in Threads :
        FieldMissing(req[t]) =>
            /\ pc[t] = "done"
            /\ resp[t].status = 400 /\ resp[t].json /\ resp[t].txHash = {}
            /\ NoChainCall(t)

C1_Witness ==
    \E t \in Threads :
        /\ req[t] = Body("depositFunds", TRUE, Absent, Absent, Absent, Num(1, 0), Absent)
        /\ pc[t] = "done"
        /\ resp[t].status = 400

\* C2: when two requests hold the same fetched nonce and both have
\* submitted, both envelopes carry that nonce and the node has not accepted
\* both; the witness is the interleaving in which one is refused as a nonce
\* collision.
C2_SameNonceNotBothAccepted ==
    \A t, u \in Threads :
        (t # u /\ Submitted(t) /\ Submitted(u) /\ nonce[t] = nonce[u]) =>
            /\ TheTx(t).nonce = nonce[t]
            /\ TheTx(u).nonce = nonce[u]
            /\ ~(resp[t].status = 200 /\ resp[u].status = 200)

C2_Witness ==
    \E t, u \in Threads :
        /\ t # u /\ Submitted(t) /\ Submitted(u)
        /\ req[t].op \in WriteOps /\ req[u].op \in WriteOps
        /\ TheTx(t).nonce = TheTx(u).nonce
        /\ resp[t].status = 200 /\ resp[t].txHash # {}
        /\ resp[u].status = 500 /\ resp[u].error = NonceTooLow

\* C3 (as claimed): every submitted transaction carries a nonce equal to the
\* account's on-chain transaction count at the time it was built.
C3_NonceIsCountAtBuild ==
    \A t \in Threads : Submitted(t) => TheTx(t).nonce = builtAt[t]

\* C4: every depositFunds request hands the same fixed value, 5 * 10^17 wei,
\* to the gas estimate and to the envelope; two requests that differ in
\* their amount get the same attached value.
C4_FixedDepositValue ==
    \A t, u \in Threads :
        (req[t].op = "depositFunds" /\ req[u].op = "depositFunds") =>
            /\ \A v \in estimated[t] : v = Big(5, 17)
            /\ \A e \in tx[t] : e.value = Big(5, 17)
            /\ \A e \in tx[t], f \in tx[u] : e.value = f.value

C4_Witness ==
    \E t, u \in Threads :
        /\ req[t].op = "depositFunds" /\ req[u].op = "depositFunds"
        /\ req[t].amount = Num(1, 0) /\ req[u].amount = Num(15, -1)
        /\ req[t].orderId = req[u].orderId
        /\ tx[t] # {} /\ tx[u] # {}
        /\ estimated[t] # {} /\ estimated[u] # {}

\* C5: a fault raised at any step inside the try block of a write handler
\* ends the request with status 500, the fault's own message as the error
\* text, and no transaction identifier.
C5_FaultSurfaced ==
    \A t \in Threads :
        \A f \in raised[t] :
            req[t].op \in WriteOps =>
                /\ pc[t] = "done"
                /\ resp[t].status = 500 /\ resp[t].json
                /\ resp[t].error = f.msg
                /\ resp[t].txHash = {}

C5_Witness ==
    \E t, u \in Threads :
        /\ req[t].op \in WriteOps /\ req[u].op \in WriteOps
        /\ raised[t] = {[step |-> "send", msg |-> NonceTooLow]}
        /\ raised[u] = {[step |-> "estimate", msg |-> "execution reverted"]}
        /\ resp[t].error = NonceTooLow
        /\ resp[u].error = "execution reverted"

\* An amount to_wei cannot convert, or a supplier that is no address.
Malformed(r) == ToWeiRaises(r.amount) \/ r.supplier # Address

\* C6 (as claimed): a createOrder request with all three fields present, one
\* of them malformed, is answered 400 and makes no remote call.
C6_MalformedIsValidationError ==
    \A t \in Threads :
        ( /\ req[t].op = "createOrder" /\ req[t].isObject
          /\ \A v \in RequiredFields(req[t]) : Truthy(v)
          /\ Malformed(req[t])
          /\ pc[t] = "done" ) =>
            resp[t].status = 400 /\ calls[t] = <<>>

\* C7: a request makes at most one submission call; a response with a
\* transaction identifier comes from exactly one; a request in which a step
\* failed has returned, so nothing of it is tried again.
C7_SubmittedAtMostOnce ==
    \A t \in Threads :
        /\ Sends(t) <= 1
        /\ resp[t].txHash # {} => Sends(t) = 1
        /\ raised[t] # {} => pc[t] = "done"

C7_Witness ==
    \E t, u \in Threads :
        /\ resp[t].txHash # {} /\ Sends(t) = 1
        /\ raised[u] = {[step |-> "send", msg |-> "connection refused"]}
        /\ Sends(u) = 1 /\ pc[u] = "done"

\* C8 (as claimed): no remote call lies between the nonce lookup and the
\* build, and nonce lookups never go down.
C8_NonceImmediatelyBeforeBuild ==
    /\ monotone
    /\ \A t \in Threads :
          pc[t] \in {"sign", "send"} => Last(calls[t]) = "get_transaction_count"

\* C8 (amended): the nonce lookup is the first remote call of a write
\* request, the only remote calls between it and the build are the chain id,
\* gas price and gas estimate lookups, the envelope carries the nonce looked
\* up, and nonce lookups never go down.
C8_NonceFirstThenLookups ==
    /\ monotone
    /\ \A t \in Threads :
          pc[t] \in {"sign", "send"} =>
              /\ Len(calls[t]) >= 1
              /\ calls[t][1] = "get_transaction_count"
              /\ \A i \in 2..Len(calls[t]) :
                     calls[t][i] \in {"estimate_gas", "chain_id", "gas_price"}
              /\ TheTx(t).nonce = nonce[t]

C8_Witness ==
    \E t \in Threads :
        /\ pc[t] = "sign"
        /\ calls[t] = <<"get_transaction_count", "chain_id", "gas_price">>
        /\ nonce[t] = 1 /\ maxFetched = 1

\* C9 (as claimed): when the read-only call has returned the order tuple and
\* no fault has come from the node, get_order answers 200 with the snapshot.
C9_GetOrderReturnsSnapshot ==
    \A t \in Threads :
        ( /\ req[t].op = "getOrder" /\ pc[t] = "done"
          /\ order[t] # {}
          /\ \A f \in raised[t] : f.msg \notin FaultMessages ) =>
            /\ resp[t].status = 200
            /\ resp[t].order = {Snapshot(TheOrder(t))}

\* w = c * 10^s: two numbers coef * 10^exp are equal exactly when they agree
\* once the trailing zeros of the coefficients are moved into the exponents.
SameValue(w, c, s) == Norm(w) = Norm(Big(c, s))

RECURSIVE Pow10(_)
Pow10(n) == IF n <= 0 THEN 1 ELSE 10 * Pow10(n - 1)

\* w is the integer part of c / 10^k.
IntegerPart(w, c, k) ==
    LET n == w.coef * Pow10(w.exp) IN n * Pow10(k) <= c /\ c < (n + 1) * Pow10(k)

\* C10: the amount argument of createOrder is a non-negative integer, the
\* integer part of the input amount times 10^18 (the product itself whenever
\* the input has at most 18 decimal places); the envelope attaches no value;
\* the document argument is ipfs://<ISO_CID> whatever the request holds.
C10_CreateOrderAmountInWei ==
    \A t \in Threads :
        \A e \in tx[t] :
            req[t].op = "createOrder" =>
                LET a == req[t].amount
                    w == e.call.amount
                    s == a.exp + 18
                IN  /\ w.exp >= 0 /\ w.coef >= 0
                    /\ s >= 0 => SameValue(w, a.coef, s)
                    /\ s < 0 => IntegerPart(w, a.coef, -s)
                    /\ e.value = Big(0, 0)
                    /\ e.call.doc = Str("ipfs://configured-cid")

C10_Witness ==
    \E t \in Threads :
        /\ req[t].op = "createOrder" /\ tx[t] # {}
        /\ req[t].amount = Num(15, -1)
        /\ req[t].doc = OtherDoc
        /\ TheTx(t).call.amount = Big(15, 17)

====
